---- MODULE Spec2Model ----
(***************************************************************************)
(* Model of the derived-table production path of the qaEventTrack task     *)
(* (DPG/Tasks/qaEventTrack.cxx): init, isSelectedCollision,                *)
(* isSelectedTrack, processTableData / processTableMC and                  *)
(* fillDerivedTable.                                                       *)
(*                                                                         *)
(* Floating point quantities are modelled by integers: posZ and            *)
(* selectMaxVtxZ are integers, fractionOfSampledEvents is the numerator of *)
(* a fraction over FracDen, and a call of rand() yields a value in         *)
(* 0..RandMax.  Output rows keep the columns that the task computes or     *)
(* that identify a row (back-reference, pt, sign, pdgCode, production);    *)
(* the remaining columns are copied verbatim from the input row.           *)
(***************************************************************************)
EXTENDS Integers, Sequences, FiniteSets

\* ------------------------------------------------------------------ bounds
MaxCollisions == 2
MaxTracks == 3
NParticles == 6
MaxSelectCollisions == 1
MaxFewTracks == 2
MaxCapCollisions == 8
MaxTarget == 6
FracDen == 2
RandMax == 2
MaxHistoCollisions == 2

VARIABLES
    cfg,                    \* the Configurables and PROCESS_SWITCHes
    mcParticles,            \* the aod::McParticles input table
    pc,                     \* "constructed", "running" or "fatal"
    nTableEventCounter,
    tableCollisions,
    tableTracks,
    tableRecoParticles,
    tableNonRecoParticles,
    nCollisions,            \* number of collision rows handed to the task so far
    nTrackRows,             \* number of track rows handed to the task so far
    last,                   \* history: the last fillDerivedTable call
    log,                    \* history: the rows appended, in append order
    qa,                     \* the PROCESS_SWITCHes of the histogram-filling functions
    histos,                 \* the names registered in the HistogramRegistry
    fills                   \* history: the names histos.fill was called with

vars == <<cfg, mcParticles, pc, nTableEventCounter, tableCollisions, tableTracks,
          tableRecoParticles, tableNonRecoParticles, nCollisions, nTrackRows, last, log,
          qa, histos, fills>>

tables == <<tableCollisions, tableTracks, tableRecoParticles, tableNonRecoParticles>>

\* ------------------------------------------------------------------ inputs
Abs(x) == IF x < 0 THEN -x ELSE x

Range(s) == {s[i] : i \in DOMAIN s}

\* Particle attributes of the row with global index gi in the table variant s.
ParticleRow(gi, s, split) ==
    [globalIndex |-> gi,
     mcCollisionId |-> IF gi < split THEN 0 ELSE 1,
     isPhysicalPrimary |-> ((gi + s) % 2 = 0),
     getProcess |-> IF ((gi + s) \div 2) % 2 = 0 THEN 4 ELSE 23,
     pdgCode |-> <<211, -211, 2212>>[((gi + s) % 3) + 1],
     pt |-> 10 + gi]

ParticleTables(variants, splits) ==
    {[i \in 1..NParticles |-> ParticleRow(i - 1, s, split)] :
        s \in variants, split \in splits}

\* A track row; pt labels the row by its position in the input track table.
TrackKinds(signs, labels) ==
    [sign : signs, has_mcParticle : {FALSE}, mcParticleId : {-1}]
    \cup [sign : signs, has_mcParticle : {TRUE}, mcParticleId : labels]

TrackTablesOfSize(n, kinds) ==
    {[i \in 1..n |-> [pt |-> nTrackRows + i, sign |-> f[i].sign,
                      has_mcParticle |-> f[i].has_mcParticle,
                      mcParticleId |-> f[i].mcParticleId]] : f \in [1..n -> kinds]}

\* The slices of the input track table that may come with the next collision.
TrackTables(kinds, maxTracks) ==
    UNION {TrackTablesOfSize(n, kinds) : n \in 0..(maxTracks - nTrackRows)}

CollisionRows(zs, sel7s, sel8s, mcIds) ==
    [posZ : zs, sel7 : sel7s, sel8 : sel8s, has_mcCollision : {FALSE}, mcCollisionId : {-1}]
    \cup [posZ : zs, sel7 : sel7s, sel8 : sel8s, has_mcCollision : {TRUE}, mcCollisionId : mcIds]

\* ------------------------------------------------------------------ configuration
Config(run3, good, maxZ, target, fraction, charge, prim, sec, pid, swData, swMC) ==
    [isRun3 : run3, selectGoodEvents : good, selectMaxVtxZ : maxZ,
     targetNumberOfEvents : target, fractionOfSampledEvents : fraction,
     selectCharge : charge, selectPrim : prim, selectSec : sec, selectPID : pid,
     doprocessTableData : swData, doprocessTableMC : swMC]

NoCall ==
    [IS_MC |-> FALSE, collision |-> [globalIndex |-> -1], tracks |-> <<>>,
     counter |-> 0, draw |-> -1, outcome |-> "none", capSeenBefore |-> FALSE]

\* the defaults of the histogram-filling PROCESS_SWITCHes
QaDefault ==
    [doprocessData |-> FALSE, doprocessDataIU |-> TRUE,
     doprocessDataIUFiltered |-> TRUE, doprocessMC |-> TRUE]

InitWithQa(configs, particleTables, switches) ==
    /\ cfg \in configs
    /\ qa \in switches
    /\ histos = {}
    /\ fills = {}
    /\ mcParticles \in particleTables
    /\ pc = "constructed"
    /\ nTableEventCounter = 0
    /\ tableCollisions = <<>>
    /\ tableTracks = <<>>
    /\ tableRecoParticles = <<>>
    /\ tableNonRecoParticles = <<>>
    /\ nCollisions = 0
    /\ nTrackRows = 0
    /\ last = NoCall
    /\ log = <<>>

InitWith(configs, particleTables) ==
    /\ cfg \in configs
    /\ qa = QaDefault
    /\ histos = {}
    /\ fills = {}
    /\ mcParticles \in particleTables
    /\ pc = "constructed"
    /\ nTableEventCounter = 0
    /\ tableCollisions = <<>>
    /\ tableTracks = <<>>
    /\ tableRecoParticles = <<>>
    /\ tableNonRecoParticles = <<>>
    /\ nCollisions = 0
    /\ nTrackRows = 0
    /\ last = NoCall
    /\ log = <<>>

\* ------------------------------------------------------------------ histograms
\* One name stands for each block of histograms that init registers, and that the
\* process functions fill, under the same condition.
EventsRecoEff == "Events/recoEff"

EventsHistos == "Events/nTracks"

EventsReso == "Events/resoZ"

TracksHistos == "Tracks/Kine/pt"

TracksReso == "Tracks/Kine/resoPt"

TracksIU == "Tracks/IU/Pt"

TracksIUFiltered == "Tracks/IUFiltered/Pt"

\* the names init has registered when it returns
registered ==
    IF ~qa.doprocessData /\ ~qa.doprocessMC THEN {}
    ELSE {EventsRecoEff, EventsHistos, TracksHistos}
         \cup (IF qa.doprocessMC THEN {EventsReso, TracksReso} ELSE {})
         \cup (IF qa.doprocessDataIU THEN {TracksIU} ELSE {})
         \cup (IF qa.doprocessDataIUFiltered THEN {TracksIUFiltered} ELSE {})

\* ------------------------------------------------------------------ init
\* mutant: the two table switches are not checked
init_noFatal ==
    /\ pc = "constructed"
    /\ pc' = "running"
    /\ histos' = registered
    /\ UNCHANGED <<cfg, mcParticles, nTableEventCounter, tableCollisions, tableTracks,
                   tableRecoParticles, tableNonRecoParticles, nCollisions, nTrackRows,
                   last, log, qa, fills>>

init ==
    /\ pc = "constructed"
    /\ pc' = IF cfg.doprocessTableData /\ cfg.doprocessTableMC THEN "fatal" ELSE "running"
    /\ histos' = IF cfg.doprocessTableData /\ cfg.doprocessTableMC THEN histos
                  ELSE registered
    /\ UNCHANGED <<cfg, mcParticles, nTableEventCounter, tableCollisions, tableTracks,
                   tableRecoParticles, tableNonRecoParticles, nCollisions, nTrackRows,
                   last, log, qa, fills>>

\* ------------------------------------------------------------------ predicates
\* mutant: the quality flag is read from the other run period
isSelectedCollision_otherFlag(collision) ==
    IF cfg.selectGoodEvents /\ ~(IF cfg.isRun3 THEN collision.sel7 ELSE collision.sel8)
    THEN FALSE
    ELSE TRUE

isSelectedCollision(collision) ==
    IF cfg.selectGoodEvents /\ ~(IF cfg.isRun3 THEN collision.sel8 ELSE collision.sel7)
    THEN FALSE
    ELSE TRUE

\* mutant: the charge check is skipped
isSelectedTrack_noCharge(IS_MC, track) ==
    IF ~IS_MC THEN TRUE
    ELSE IF ~track.has_mcParticle
         THEN (IF cfg.selectPrim \/ cfg.selectSec \/ cfg.selectPID # 0 THEN FALSE ELSE TRUE)
    ELSE LET particle == mcParticles[track.mcParticleId + 1]
             isPrimary == particle.isPhysicalPrimary
         IN  IF cfg.selectPrim /\ ~isPrimary THEN FALSE
             ELSE IF cfg.selectSec /\ isPrimary THEN FALSE
             ELSE IF cfg.selectPID # 0 /\ cfg.selectPID # Abs(particle.pdgCode) THEN FALSE
             ELSE TRUE

\* mutant: a track without a truth match always passes
isSelectedTrack_unmatchedPass(IS_MC, track) ==
    IF cfg.selectCharge # 0 /\ cfg.selectCharge # track.sign THEN FALSE
    ELSE IF ~IS_MC THEN TRUE
    ELSE IF ~track.has_mcParticle THEN TRUE
    ELSE LET particle == mcParticles[track.mcParticleId + 1]
             isPrimary == particle.isPhysicalPrimary
         IN  IF cfg.selectPrim /\ ~isPrimary THEN FALSE
             ELSE IF cfg.selectSec /\ isPrimary THEN FALSE
             ELSE IF cfg.selectPID # 0 /\ cfg.selectPID # Abs(particle.pdgCode) THEN FALSE
             ELSE TRUE

\* mutant: the PID requirement compares the signed pdgCode
isSelectedTrack_signedPdg(IS_MC, track) ==
    IF cfg.selectCharge # 0 /\ cfg.selectCharge # track.sign THEN FALSE
    ELSE IF ~IS_MC THEN TRUE
    ELSE IF ~track.has_mcParticle
         THEN (IF cfg.selectPrim \/ cfg.selectSec \/ cfg.selectPID # 0 THEN FALSE ELSE TRUE)
    ELSE LET particle == mcParticles[track.mcParticleId + 1]
             isPrimary == particle.isPhysicalPrimary
         IN  IF cfg.selectPrim /\ ~isPrimary THEN FALSE
             ELSE IF cfg.selectSec /\ isPrimary THEN FALSE
             ELSE IF cfg.selectPID # 0 /\ cfg.selectPID # particle.pdgCode THEN FALSE
             ELSE TRUE

\* mutant: the truth-based options are applied in data mode as well
isSelectedTrack_truthInData(IS_MC, track) ==
    IF cfg.selectCharge # 0 /\ cfg.selectCharge # track.sign THEN FALSE
    ELSE IF ~track.has_mcParticle
         THEN (IF cfg.selectPrim \/ cfg.selectSec \/ cfg.selectPID # 0 THEN FALSE ELSE TRUE)
    ELSE LET particle == mcParticles[track.mcParticleId + 1]
             isPrimary == particle.isPhysicalPrimary
         IN  IF cfg.selectPrim /\ ~isPrimary THEN FALSE
             ELSE IF cfg.selectSec /\ isPrimary THEN FALSE
             ELSE IF cfg.selectPID # 0 /\ cfg.selectPID # Abs(particle.pdgCode) THEN FALSE
             ELSE TRUE

\* mutant: selectSec is not consulted for a truth-matched track
isSelectedTrack_noSec(IS_MC, track) ==
    IF cfg.selectCharge # 0 /\ cfg.selectCharge # track.sign THEN FALSE
    ELSE IF ~IS_MC THEN TRUE
    ELSE IF ~track.has_mcParticle
         THEN (IF cfg.selectPrim \/ cfg.selectSec \/ cfg.selectPID # 0 THEN FALSE ELSE TRUE)
    ELSE LET particle == mcParticles[track.mcParticleId + 1]
             isPrimary == particle.isPhysicalPrimary
         IN  IF cfg.selectPrim /\ ~isPrimary THEN FALSE
             ELSE IF cfg.selectPID # 0 /\ cfg.selectPID # Abs(particle.pdgCode) THEN FALSE
             ELSE TRUE

isSelectedTrack(IS_MC, track) ==
    IF cfg.selectCharge # 0 /\ cfg.selectCharge # track.sign THEN FALSE
    ELSE IF ~IS_MC THEN TRUE
    ELSE IF ~track.has_mcParticle
         THEN (IF cfg.selectPrim \/ cfg.selectSec \/ cfg.selectPID # 0 THEN FALSE ELSE TRUE)
    ELSE LET particle == mcParticles[track.mcParticleId + 1]
             isPrimary == particle.isPhysicalPrimary
         IN  IF cfg.selectPrim /\ ~isPrimary THEN FALSE
             ELSE IF cfg.selectSec /\ isPrimary THEN FALSE
             ELSE IF cfg.selectPID # 0 /\ cfg.selectPID # Abs(particle.pdgCode) THEN FALSE
             ELSE TRUE

\* ------------------------------------------------------------------ admission checks
\* mutant: the vertex cut compares with >=
outsideVtxZ_inclusive(collision) == Abs(collision.posZ) >= cfg.selectMaxVtxZ

outsideVtxZ(collision) == Abs(collision.posZ) > cfg.selectMaxVtxZ

\* mutant: the draw is compared whatever the fraction is
notSampled_unguarded(r) == r * FracDen >= cfg.fractionOfSampledEvents * RandMax

\* mutant: a draw equal to the fraction is not sampled
notSampled_atFraction(r) ==
    /\ cfg.fractionOfSampledEvents < FracDen
    /\ r * FracDen >= cfg.fractionOfSampledEvents * RandMax

\* rand() / RAND_MAX > fractionOfSampledEvents, for the draw r of rand()
notSampled(r) ==
    /\ cfg.fractionOfSampledEvents < FracDen
    /\ r * FracDen > cfg.fractionOfSampledEvents * RandMax

\* mutant: the cap compares with >=
targetReached_atTarget == nTableEventCounter >= cfg.targetNumberOfEvents

\* mutant: the cap compares with the target plus one
targetReached_late == nTableEventCounter > cfg.targetNumberOfEvents + 1

targetReached == nTableEventCounter > cfg.targetNumberOfEvents

\* mutant: the event selection is not consulted
admitOutcome_skipSelection(collision, r) ==
    IF outsideVtxZ(collision) THEN "vtxZ"
    ELSE IF notSampled(r) THEN "notSampled"
    ELSE IF targetReached THEN "targetReached"
    ELSE "written"

\* mutant: the cap is checked before the vertex cut and the sampling
admitOutcome_capFirst(collision, r) ==
    IF ~isSelectedCollision(collision) THEN "notSelected"
    ELSE IF targetReached THEN "targetReached"
    ELSE IF outsideVtxZ(collision) THEN "vtxZ"
    ELSE IF notSampled(r) THEN "notSampled"
    ELSE "written"

admitOutcome(collision, r) ==
    IF ~isSelectedCollision(collision) THEN "notSelected"
    ELSE IF outsideVtxZ(collision) THEN "vtxZ"
    ELSE IF notSampled(r) THEN "notSampled"
    ELSE IF targetReached THEN "targetReached"
    ELSE "written"

\* rand() is called only when the checks before it pass and the fraction is below 1;
\* -1 stands for "rand() was not called".
Draws(collision) ==
    IF /\ isSelectedCollision(collision)
       /\ ~outsideVtxZ(collision)
       /\ cfg.fractionOfSampledEvents < FracDen
    THEN 0..RandMax
    ELSE {-1}

\* ------------------------------------------------------------------ rows
\* mutant: the back-reference is the table size
lastIndex_size(table) == Len(table)

lastIndex(table) == Len(table) - 1

CollisionRow(collision) ==
    [posZ |-> collision.posZ,
     sel |-> IF cfg.isRun3 THEN collision.sel8 ELSE collision.sel7]

TrackRow(collisionId, track) ==
    [collisionId |-> collisionId, pt |-> track.pt, sign |-> track.sign]

recoParticleProduction(particle) ==
    IF particle.isPhysicalPrimary THEN 0
    ELSE IF particle.getProcess = 4 THEN 1
    ELSE 2

\* mutant: the process code is consulted before isPhysicalPrimary
nonRecoParticleProduction_processFirst(particle) ==
    IF particle.getProcess = 4 THEN 1
    ELSE IF particle.isPhysicalPrimary THEN 0
    ELSE 2

nonRecoParticleProduction(particle) ==
    IF particle.isPhysicalPrimary THEN 0
    ELSE IF particle.getProcess = 4 THEN 1
    ELSE 2

\* mutant: a track without a truth match is written with classification 2
RecoParticleRow_unmatchedOther(track) ==
    IF track.has_mcParticle
    THEN LET particle == mcParticles[track.mcParticleId + 1]
         IN  [pt |-> particle.pt, pdgCode |-> particle.pdgCode,
              production |-> recoParticleProduction(particle)]
    ELSE [pt |-> track.pt, pdgCode |-> 0, production |-> 2]

RecoParticleRow(track) ==
    IF track.has_mcParticle
    THEN LET particle == mcParticles[track.mcParticleId + 1]
         IN  [pt |-> particle.pt, pdgCode |-> particle.pdgCode,
              production |-> recoParticleProduction(particle)]
    ELSE [pt |-> track.pt, pdgCode |-> 0, production |-> -1]

NonRecoParticleRow(collisionId, particle) ==
    [collisionId |-> collisionId, pt |-> particle.pt, pdgCode |-> particle.pdgCode,
     production |-> nonRecoParticleProduction(particle)]

\* ------------------------------------------------------------------ table writing
selectedTracks(IS_MC, tracks) ==
    SelectSeq(tracks, LAMBDA track : isSelectedTrack(IS_MC, track))

\* mutant: the matched particle indices are never stored
recoPartIndices_unfilled(IS_MC, selected) ==
    IF ~IS_MC THEN <<>> ELSE [i \in 1..Len(selected) |-> 0]

\* std::vector<int64_t>(nTracks), then recoPartIndices[iTrack++] for each matched track
recoPartIndices(IS_MC, selected) ==
    IF ~IS_MC THEN <<>>
    ELSE LET matched == SelectSeq(selected, LAMBDA track : track.has_mcParticle)
         IN  [i \in 1..Len(selected) |->
                 IF i <= Len(matched)
                 THEN mcParticles[matched[i].mcParticleId + 1].globalIndex
                 ELSE 0]

partReconstructed(indices, particle) ==
    \E i \in DOMAIN indices : indices[i] = particle.globalIndex

particlesInCollision(collision) ==
    SelectSeq(mcParticles, LAMBDA particle : particle.mcCollisionId = collision.mcCollisionId)

\* the argument of tableNonRecoParticles.reserve
nonRecoReserve(collision, selected) ==
    Len(particlesInCollision(collision)) - Len(selected)

\* mutant: reconstructed particles are not skipped
nonRecoParticles_all(IS_MC, collision, selected) ==
    IF ~IS_MC THEN <<>>
    ELSE IF ~collision.has_mcCollision THEN <<>>
    ELSE particlesInCollision(collision)

\* mutant: a collision without a truth collision is treated as truth collision 0
nonRecoParticles_defaultCollision(IS_MC, collision, selected) ==
    IF ~IS_MC THEN <<>>
    ELSE LET indices == recoPartIndices(IS_MC, selected)
             id == IF collision.has_mcCollision THEN collision.mcCollisionId ELSE 0
         IN  SelectSeq(mcParticles,
                       LAMBDA particle : /\ particle.mcCollisionId = id
                                         /\ ~partReconstructed(indices, particle))

nonRecoParticles(IS_MC, collision, selected) ==
    IF ~IS_MC THEN <<>>
    ELSE IF ~collision.has_mcCollision THEN <<>>
    ELSE LET indices == recoPartIndices(IS_MC, selected)
         IN  SelectSeq(particlesInCollision(collision),
                       LAMBDA particle : ~partReconstructed(indices, particle))

\* The rows of one admitted collision in append order: the collision row, then per
\* selected track its track row and (MC) its reconstructed-particle row, then the
\* non-reconstructed-particle rows.
LogEntry(tab, idx, coll, trk, part) ==
    [tab |-> tab, idx |-> idx, coll |-> coll, trk |-> trk, part |-> part]

appendOrder(IS_MC, collision, selected, nonReco) ==
    LET gi == collision.globalIndex
        n == Len(selected)
        trackEntry(i) == LogEntry("T", Len(tableTracks) + i - 1, gi, selected[i].pt, -1)
        recoEntry(i) ==
            LogEntry("R", Len(tableRecoParticles) + i - 1, gi, selected[i].pt,
                     IF selected[i].has_mcParticle THEN selected[i].mcParticleId ELSE -1)
        perTrack ==
            IF IS_MC
            THEN [k \in 1..(2 * n) |->
                     IF k % 2 = 1 THEN trackEntry((k + 1) \div 2) ELSE recoEntry(k \div 2)]
            ELSE [k \in 1..n |-> trackEntry(k)]
        nonRecoEntries ==
            [k \in 1..Len(nonReco) |->
                LogEntry("N", Len(tableNonRecoParticles) + k - 1, gi, -1,
                         nonReco[k].globalIndex)]
    IN  <<LogEntry("C", Len(tableCollisions), gi, -1, -1)>> \o perTrack \o nonRecoEntries

\* mutant: the track table is restarted by every admitted collision
fillDerivedTable_restartTracks(IS_MC, collision, tracks, r) ==
    LET outcome == admitOutcome(collision, r)
        newCollisions == Append(tableCollisions, CollisionRow(collision))
        selected == selectedTracks(IS_MC, tracks)
        nTracks == Len(selected)
        nonReco == nonRecoParticles(IS_MC, collision, selected)
    IN  /\ last' = [IS_MC |-> IS_MC, collision |-> collision, tracks |-> tracks,
                    counter |-> nTableEventCounter,
                    draw |-> r,
                    outcome |-> outcome,
                    capSeenBefore |-> (last.capSeenBefore \/ last.outcome = "targetReached")]
        /\ nCollisions' = nCollisions + 1
        /\ nTrackRows' = nTrackRows + Len(tracks)
        /\ IF outcome = "written"
           THEN /\ nTableEventCounter' = nTableEventCounter + 1
                /\ tableCollisions' = newCollisions
                /\ tableTracks' =
                       [i \in 1..nTracks |-> TrackRow(lastIndex(newCollisions), selected[i])]
                /\ tableRecoParticles' = tableRecoParticles \o
                       (IF IS_MC THEN [i \in 1..nTracks |-> RecoParticleRow(selected[i])]
                        ELSE <<>>)
                /\ tableNonRecoParticles' = tableNonRecoParticles \o
                       [k \in 1..Len(nonReco) |->
                           NonRecoParticleRow(lastIndex(newCollisions), nonReco[k])]
                /\ log' = log \o appendOrder(IS_MC, collision, selected, nonReco)
           ELSE UNCHANGED <<nTableEventCounter, tableCollisions, tableTracks,
                            tableRecoParticles, tableNonRecoParticles, log>>
        /\ UNCHANGED <<cfg, mcParticles, pc, qa, histos, fills>>

fillDerivedTable(IS_MC, collision, tracks, r) ==
    LET outcome == admitOutcome(collision, r)
        newCollisions == Append(tableCollisions, CollisionRow(collision))
        selected == selectedTracks(IS_MC, tracks)
        nTracks == Len(selected)
        nonReco == nonRecoParticles(IS_MC, collision, selected)
    IN  /\ last' = [IS_MC |-> IS_MC, collision |-> collision, tracks |-> tracks,
                    counter |-> nTableEventCounter,
                    draw |-> r,
                    outcome |-> outcome,
                    capSeenBefore |-> (last.capSeenBefore \/ last.outcome = "targetReached")]
        /\ nCollisions' = nCollisions + 1
        /\ nTrackRows' = nTrackRows + Len(tracks)
        /\ IF outcome = "written"
           THEN /\ nTableEventCounter' = nTableEventCounter + 1
                /\ tableCollisions' = newCollisions
                /\ tableTracks' = tableTracks \o
                       [i \in 1..nTracks |-> TrackRow(lastIndex(newCollisions), selected[i])]
                /\ tableRecoParticles' = tableRecoParticles \o
                       (IF IS_MC THEN [i \in 1..nTracks |-> RecoParticleRow(selected[i])]
                        ELSE <<>>)
                /\ tableNonRecoParticles' = tableNonRecoParticles \o
                       [k \in 1..Len(nonReco) |->
                           NonRecoParticleRow(lastIndex(newCollisions), nonReco[k])]
                /\ log' = log \o appendOrder(IS_MC, collision, selected, nonReco)
           ELSE UNCHANGED <<nTableEventCounter, tableCollisions, tableTracks,
                            tableRecoParticles, tableNonRecoParticles, log>>
        /\ UNCHANGED <<cfg, mcParticles, pc, qa, histos, fills>>

\* The rows one call of fillDerivedTable appends, as <<table, row>> in append
\* order, computed from the current counter and table positions for a given state
\* r of the random source (a value rand() would return).
fillDerivedTableRows(IS_MC, collision, tracks, r) ==
    LET selected == selectedTracks(IS_MC, tracks)
        nTracks == Len(selected)
        nonReco == nonRecoParticles(IS_MC, collision, selected)
        newCollisions == Append(tableCollisions, CollisionRow(collision))
        perTrack ==
            IF IS_MC
            THEN [k \in 1..(2 * nTracks) |->
                     IF k % 2 = 1
                     THEN <<"T", TrackRow(lastIndex(newCollisions), selected[(k + 1) \div 2])>>
                     ELSE <<"R", RecoParticleRow(selected[k \div 2])>>]
            ELSE [k \in 1..nTracks |-> <<"T", TrackRow(lastIndex(newCollisions), selected[k])>>]
    IN  IF admitOutcome(collision, r) # "written" THEN <<>>
        ELSE <<<<"C", CollisionRow(collision)>>>> \o perTrack \o
             [k \in 1..Len(nonReco) |->
                 <<"N", NonRecoParticleRow(lastIndex(newCollisions), nonReco[k])>>]

\* ------------------------------------------------------------------ process functions
WithIndex(collision) ==
    [globalIndex |-> nCollisions, posZ |-> collision.posZ, sel7 |-> collision.sel7,
     sel8 |-> collision.sel8, has_mcCollision |-> collision.has_mcCollision,
     mcCollisionId |-> collision.mcCollisionId]

\* CollisionTableData and TrackTableData carry no MC labels.
processTableData(collisions, kinds, maxCollisions, maxTracks) ==
    /\ pc = "running"
    /\ cfg.doprocessTableData
    /\ nCollisions < maxCollisions
    /\ \E collision \in collisions, tracks \in TrackTables(kinds, maxTracks) :
           /\ ~collision.has_mcCollision
           /\ \A i \in DOMAIN tracks : ~tracks[i].has_mcParticle
           /\ \E r \in Draws(collision) :
                  fillDerivedTable(FALSE, WithIndex(collision), tracks, r)

processTableMC(collisions, kinds, maxCollisions, maxTracks) ==
    /\ pc = "running"
    /\ cfg.doprocessTableMC
    /\ nCollisions < maxCollisions
    /\ \E collision \in collisions, tracks \in TrackTables(kinds, maxTracks) :
           \E r \in Draws(collision) :
               fillDerivedTable(TRUE, WithIndex(collision), tracks, r)

\* ------------------------------------------------------------------ histogram filling
\* the names fillRecoHistograms calls histos.fill with
fillRecoHistograms(IS_MC, collision, tracks) ==
    LET selected == selectedTracks(IS_MC, tracks)
    IN  {EventsRecoEff}
        \cup (IF ~isSelectedCollision(collision) THEN {}
              ELSE {EventsHistos}
                   \cup (IF IS_MC /\ collision.has_mcCollision THEN {EventsReso} ELSE {})
                   \cup (IF selected # <<>> THEN {TracksHistos} ELSE {})
                   \cup (IF IS_MC /\ \E i \in DOMAIN selected : selected[i].has_mcParticle
                         THEN {TracksReso} ELSE {}))

\* the names processDataIU and processDataIUFiltered call histos.fill with
fillIUHistograms(name, collision, tracks) ==
    IF ~isSelectedCollision(collision) THEN {}
    ELSE IF selectedTracks(FALSE, tracks) # <<>> THEN {name}
    ELSE {}

\* one call of a histogram-filling process function on a collision and its tracks
histosFill(names, tracks) ==
    /\ fills' = fills \cup names
    /\ nCollisions' = nCollisions + 1
    /\ nTrackRows' = nTrackRows + Len(tracks)
    /\ UNCHANGED <<cfg, mcParticles, pc, nTableEventCounter, tableCollisions, tableTracks,
                   tableRecoParticles, tableNonRecoParticles, last, log, qa, histos>>

processData(collisions, kinds, maxCollisions, maxTracks) ==
    /\ pc = "running"
    /\ qa.doprocessData
    /\ nCollisions < maxCollisions
    /\ \E collision \in collisions, tracks \in TrackTables(kinds, maxTracks) :
           /\ ~collision.has_mcCollision
           /\ \A i \in DOMAIN tracks : ~tracks[i].has_mcParticle
           /\ histosFill(fillRecoHistograms(FALSE, collision, tracks), tracks)

processDataIU(collisions, kinds, maxCollisions, maxTracks) ==
    /\ pc = "running"
    /\ qa.doprocessDataIU
    /\ nCollisions < maxCollisions
    /\ \E collision \in collisions, tracks \in TrackTables(kinds, maxTracks) :
           /\ ~collision.has_mcCollision
           /\ \A i \in DOMAIN tracks : ~tracks[i].has_mcParticle
           /\ histosFill(fillIUHistograms(TracksIU, collision, tracks), tracks)

processDataIUFiltered(collisions, kinds, maxCollisions, maxTracks) ==
    /\ pc = "running"
    /\ qa.doprocessDataIUFiltered
    /\ nCollisions < maxCollisions
    /\ \E collision \in collisions, tracks \in TrackTables(kinds, maxTracks) :
           /\ ~collision.has_mcCollision
           /\ \A i \in DOMAIN tracks : ~tracks[i].has_mcParticle
           /\ histosFill(fillIUHistograms(TracksIUFiltered, collision, tracks), tracks)

processMC(collisions, kinds, maxCollisions, maxTracks) ==
    /\ pc = "running"
    /\ qa.doprocessMC
    /\ nCollisions < maxCollisions
    /\ \E collision \in collisions, tracks \in TrackTables(kinds, maxTracks) :
           histosFill(fillRecoHistograms(TRUE, collision, tracks), tracks)

\* ------------------------------------------------------------------ specifications
\* Writer: collisions with tracks and truth particles; the admission checks are
\* open apart from the event selection.
WriterConfigs ==
    Config({FALSE}, {TRUE}, {1}, {MaxCollisions}, {FracDen},
           {0}, BOOLEAN, {FALSE}, {0}, BOOLEAN, BOOLEAN)

WriterCollisions ==
    {c \in CollisionRows({0}, BOOLEAN, {TRUE}, {0, 1}) : c.sel7 \/ ~c.has_mcCollision}

\* Tracks are matched to one of the first MaxTracks particles (truth collision 0)
\* or to the last particle (truth collision 1); the other particles stay unmatched.
WriterTrackKinds == TrackKinds({1}, (0..(MaxTracks - 1)) \cup {NParticles - 1})

Init == InitWith(WriterConfigs, ParticleTables({0}, {NParticles - 1}))

Next ==
    \/ init
    \/ processTableData(WriterCollisions, WriterTrackKinds, MaxCollisions, MaxTracks)
    \/ processTableMC(WriterCollisions, WriterTrackKinds, MaxCollisions, MaxTracks)

Spec == Init /\ [][Next]_vars

\* Select: every combination of the track selection options, signed tracks.
SelectConfigs ==
    Config({FALSE}, {TRUE}, {1}, {MaxCollisions}, {FracDen},
           {-1, 0, 1}, BOOLEAN, BOOLEAN, {0, 211}, BOOLEAN, BOOLEAN)

SelectCollisions == CollisionRows({0}, {TRUE}, {TRUE}, {0})

\* Over the three table variants the particles 0..3 take every combination of
\* isPhysicalPrimary, getProcess (4 or not) and pdgCode (211, -211, 2212).
SelectTrackKinds == TrackKinds({1, -1}, 0..3)

InitSelect == InitWith(SelectConfigs, ParticleTables({0, 4, 8}, {NParticles}))

NextSelect ==
    \/ init
    \/ processTableData(SelectCollisions, SelectTrackKinds, MaxSelectCollisions, MaxFewTracks)
    \/ processTableMC(SelectCollisions, SelectTrackKinds, MaxSelectCollisions, MaxFewTracks)

SpecSelect == InitSelect /\ [][NextSelect]_vars

\* Sampler: every combination of the admission options and of the collision's
\* selection flags and vertex position.
SamplerConfigs ==
    Config(BOOLEAN, BOOLEAN, {1}, -1..1, 0..(FracDen + 1),
           {0}, {FALSE}, {FALSE}, {0}, BOOLEAN, BOOLEAN)

SamplerCollisions ==
    {c \in CollisionRows({-2, 0, 1, 2}, BOOLEAN, BOOLEAN, {}) : ~c.has_mcCollision}

SamplerTrackKinds == TrackKinds({1}, {})

InitSampler == InitWith(SamplerConfigs, ParticleTables({0}, {NParticles}))

NextSampler ==
    \/ init
    \/ processTableData(SamplerCollisions, SamplerTrackKinds, MaxCollisions, MaxFewTracks)
    \/ processTableMC(SamplerCollisions, SamplerTrackKinds, MaxCollisions, MaxFewTracks)

SpecSampler == InitSampler /\ [][NextSampler]_vars

\* Cap: long runs of track-less collisions against small targets.
CapConfigs ==
    Config({FALSE}, {TRUE}, {1}, -2..MaxTarget, {FracDen - 1, FracDen},
           {0}, {FALSE}, {FALSE}, {0}, BOOLEAN, BOOLEAN)

CapCollisions == CollisionRows({0}, BOOLEAN, {TRUE}, {})

CapTrackKinds == {}

InitCap == InitWith(CapConfigs, ParticleTables({0}, {NParticles}))

NextCap ==
    \/ init
    \/ processTableData(CapCollisions, CapTrackKinds, MaxCapCollisions, MaxFewTracks)
    \/ processTableMC(CapCollisions, CapTrackKinds, MaxCapCollisions, MaxFewTracks)

SpecCap == InitCap /\ [][NextCap]_vars

\* Histos: every combination of the process switches, with the histogram-filling
\* process functions next to the table-producing ones.
HistoConfigs ==
    Config({FALSE}, BOOLEAN, {1}, {MaxCollisions}, {FracDen},
           {0, 1}, {FALSE}, {FALSE}, {0}, BOOLEAN, BOOLEAN)

HistoSwitches ==
    [doprocessData : BOOLEAN, doprocessDataIU : BOOLEAN,
     doprocessDataIUFiltered : BOOLEAN, doprocessMC : BOOLEAN]

HistoCollisions == CollisionRows({0}, BOOLEAN, {TRUE}, {0})

HistoTrackKinds == TrackKinds({1, -1}, {0})

InitHistos == InitWithQa(HistoConfigs, ParticleTables({0}, {NParticles}), HistoSwitches)

NextHistos ==
    \/ init
    \/ processData(HistoCollisions, HistoTrackKinds, MaxHistoCollisions, MaxFewTracks)
    \/ processDataIU(HistoCollisions, HistoTrackKinds, MaxHistoCollisions, MaxFewTracks)
    \/ processDataIUFiltered(HistoCollisions, HistoTrackKinds, MaxHistoCollisions, MaxFewTracks)
    \/ processMC(HistoCollisions, HistoTrackKinds, MaxHistoCollisions, MaxFewTracks)
    \/ processTableData(HistoCollisions, HistoTrackKinds, MaxHistoCollisions, MaxFewTracks)
    \/ processTableMC(HistoCollisions, HistoTrackKinds, MaxHistoCollisions, MaxFewTracks)

SpecHistos == InitHistos /\ [][NextHistos]_vars

\* ------------------------------------------------------------------ properties
\* Shorthands over the history variables.
called == last.outcome # "none"

written == last.outcome = "written"

\* the quality flag of the last collision, chosen by isRun3
lastFlag == IF cfg.isRun3 THEN last.collision.sel8 ELSE last.collision.sel7

\* log positions of the rows of table tab appended for the input collision gi
Entries(tab, gi) == {a \in DOMAIN log : log[a].tab = tab /\ log[a].coll = gi}

lastEntries(tab) == Entries(tab, last.collision.globalIndex)

\* the input track of the last call that carries the label pt
lastTrack(pt) == CHOOSE t \in Range(last.tracks) : t.pt = pt

\* the tracks of the last call for which a track row was appended
lastAdmitted == {lastTrack(log[a].trk) : a \in lastEntries("T")}

\* The history agrees with the tables: every table row has one log entry.
LogMatchesTables ==
    /\ \A i \in DOMAIN tableCollisions :
           Cardinality({a \in DOMAIN log : log[a].tab = "C" /\ log[a].idx = i - 1}) = 1
    /\ \A i \in DOMAIN tableTracks :
           \E a \in DOMAIN log :
               /\ log[a].tab = "T" /\ log[a].idx = i - 1 /\ log[a].trk = tableTracks[i].pt
               /\ \A b \in DOMAIN log : (log[b].tab = "T" /\ log[b].idx = i - 1) => b = a
    /\ \A i \in DOMAIN tableRecoParticles :
           Cardinality({a \in DOMAIN log : log[a].tab = "R" /\ log[a].idx = i - 1}) = 1
    /\ \A i \in DOMAIN tableNonRecoParticles :
           \E a \in DOMAIN log :
               /\ log[a].tab = "N" /\ log[a].idx = i - 1
               /\ tableNonRecoParticles[i].pt = mcParticles[log[a].part + 1].pt
               /\ \A b \in DOMAIN log : (log[b].tab = "N" /\ log[b].idx = i - 1) => b = a
    /\ Len(log) = Len(tableCollisions) + Len(tableTracks) + Len(tableRecoParticles)
                      + Len(tableNonRecoParticles)

\* C1: a collision for which isSelectedCollision is false appends no row to any of
\* the four output tables and leaves nTableEventCounter unchanged, whatever posZ,
\* the sampling fraction, the running count and the target are.
C1_UnselectedAdmitsNothing ==
    [][(nCollisions' = nCollisions + 1 /\ ~isSelectedCollision(last'.collision))
           => (tables' = tables /\ nTableEventCounter' = nTableEventCounter)]_vars

C1_Witness ==
    /\ called
    /\ ~isSelectedCollision(last.collision)
    /\ Len(tableCollisions) > 0
    /\ Len(last.tracks) > 0
    /\ Abs(last.collision.posZ) <= cfg.selectMaxVtxZ
    /\ nTableEventCounter <= cfg.targetNumberOfEvents

\* C2: every track row's back-reference is the output position of exactly one
\* collision row, that row was appended before the track row, and it is the row of
\* the collision the track was processed with.
C2_TrackBackReference ==
    \A i \in DOMAIN tableTracks :
        LET ref == tableTracks[i].collisionId
        IN  /\ Cardinality({j \in DOMAIN tableCollisions : j - 1 = ref}) = 1
            /\ \E a, b \in DOMAIN log :
                   /\ a < b
                   /\ log[a].tab = "C" /\ log[a].idx = ref
                   /\ log[b].tab = "T" /\ log[b].idx = i - 1
                   /\ log[b].trk = tableTracks[i].pt
                   /\ log[a].coll = log[b].coll

C2_Witness ==
    /\ Len(tableCollisions) = 2
    /\ \E i, j \in DOMAIN tableTracks :
           tableTracks[i].collisionId = 0 /\ tableTracks[j].collisionId = 1

\* C3: in Monte Carlo mode a truth particle that is the truth match of an admitted
\* track of a collision is never written as a non-reconstructed particle of that
\* collision.
C3_MatchedNotNonReco ==
    \A a, b \in DOMAIN log :
        ~(/\ log[a].tab = "R" /\ log[a].part # -1
          /\ log[b].tab = "N" /\ log[b].coll = log[a].coll
          /\ log[b].part = log[a].part)

C3_Witness ==
    /\ written /\ last.IS_MC /\ last.collision.has_mcCollision
    /\ \E a \in lastEntries("R") :
           /\ log[a].part # -1
           /\ mcParticles[log[a].part + 1].mcCollisionId = last.collision.mcCollisionId
    /\ lastEntries("N") # {}

\* C4: in Monte Carlo mode, for an admitted collision with a truth collision, every
\* particle of that truth collision that is not the truth match of an admitted track
\* is written as exactly one non-reconstructed particle, whatever its global index
\* and also when admitted tracks have no truth match.
C4_UnmatchedAllNonReco ==
    (written /\ last.IS_MC /\ last.collision.has_mcCollision) =>
        LET matched == {log[a].part : a \in {e \in lastEntries("R") : log[e].part # -1}}
        IN  \A i \in DOMAIN mcParticles :
                (/\ mcParticles[i].mcCollisionId = last.collision.mcCollisionId
                 /\ mcParticles[i].globalIndex \notin matched)
                    => Cardinality({b \in lastEntries("N") :
                                       log[b].part = mcParticles[i].globalIndex}) = 1

\* C5: in Monte Carlo mode an admitted collision whose N admitted tracks are matched
\* to N distinct particles of its truth collision, which holds M particles, appends
\* 1 collision row, N track rows, N reconstructed-particle rows and M - N
\* non-reconstructed-particle rows.
C5_AllMatched ==
    /\ written /\ last.IS_MC /\ last.collision.has_mcCollision
    /\ \A t \in lastAdmitted :
           /\ t.has_mcParticle
           /\ mcParticles[t.mcParticleId + 1].mcCollisionId = last.collision.mcCollisionId
    /\ \A t, u \in lastAdmitted : t.mcParticleId = u.mcParticleId => t = u

C5_RowCounts ==
    C5_AllMatched =>
        LET N == Cardinality(lastAdmitted)
            M == Cardinality({i \in DOMAIN mcParticles :
                     mcParticles[i].mcCollisionId = last.collision.mcCollisionId})
        IN  /\ Cardinality(lastEntries("C")) = 1
            /\ Cardinality(lastEntries("T")) = N
            /\ Cardinality(lastEntries("R")) = N
            /\ Cardinality(lastEntries("N")) = M - N

\* the scenario N = 3, M = 5: 1, 3, 3 and 2 rows
C5_Witness ==
    /\ C5_AllMatched
    /\ Cardinality(lastAdmitted) = 3
    /\ Cardinality(lastEntries("T")) = 3
    /\ Cardinality(lastEntries("R")) = 3
    /\ Cardinality(lastEntries("N")) = 2

\* the last collision passed the selection, vertex and sampling checks
lastReachedCap == last.outcome \in {"targetReached", "written"}

C7_AdmittedAtSix ==
    (cfg.targetNumberOfEvents = 5 /\ lastReachedCap) =>
        /\ (last.counter = 6 => written)
        /\ (last.counter = 7 => ~written)

\* C7 as amended: with targetNumberOfEvents = 5 a collision that passes the earlier
\* checks is admitted when the running count is 5 and rejected when it is 6; the
\* running count never reaches 7.
C7_AdmittedAtFive ==
    cfg.targetNumberOfEvents = 5 =>
        /\ (lastReachedCap /\ last.counter = 5 => written)
        /\ (lastReachedCap /\ last.counter = 6 => ~written)
        /\ nTableEventCounter <= 6

C7_Witness ==
    /\ cfg.targetNumberOfEvents = 5
    /\ last.counter = 6
    /\ last.outcome = "targetReached"
    /\ Len(tableCollisions) = 6

\* C8: once targetNumberOfEvents collisions have been written every further
\* collision is skipped, so there are never more collision rows than the target.
C8_NeverMoreThanTarget ==
    cfg.targetNumberOfEvents >= 0 => Len(tableCollisions) <= cfg.targetNumberOfEvents

\* C9: isSelectedCollision is true exactly when selectGoodEvents is off or the
\* quality flag is set, the flag being sel8 under isRun3 and sel7 otherwise.
C9_SelectedCollision ==
    called =>
        ((last.outcome # "notSelected") <=>
            (~cfg.selectGoodEvents \/ lastFlag))

C9_Witness ==
    /\ called
    /\ cfg.selectGoodEvents /\ cfg.isRun3
    /\ last.collision.sel8 /\ ~last.collision.sel7
    /\ written

\* C10: in data and in Monte Carlo mode a track is rejected when selectCharge is
\* nonzero and differs from the track's sign, and selectCharge = 0 rejects no track
\* on charge: the decision is then the same for both signs, and every track is
\* admitted when no truth-based option is active.
C10_ChargeCheck ==
    written =>
        \A t \in Range(last.tracks) :
            /\ (cfg.selectCharge # 0 /\ cfg.selectCharge # t.sign) => t \notin lastAdmitted
            /\ (cfg.selectCharge = 0) =>
                   /\ \A u \in Range(last.tracks) :
                          (u.has_mcParticle = t.has_mcParticle
                           /\ u.mcParticleId = t.mcParticleId)
                              => (u \in lastAdmitted <=> t \in lastAdmitted)
                   /\ (~last.IS_MC \/ ~(cfg.selectPrim \/ cfg.selectSec \/ cfg.selectPID # 0))
                          => t \in lastAdmitted

C10_Witness ==
    /\ written /\ last.IS_MC
    /\ cfg.selectCharge = 1
    /\ \E t, u \in Range(last.tracks) :
           /\ t.sign = 1 /\ u.sign = -1
           /\ t \in lastAdmitted /\ u \notin lastAdmitted

\* the charge check of isSelectedTrack lets the track through
passesCharge(track) == cfg.selectCharge = 0 \/ cfg.selectCharge = track.sign

\* C11: in Monte Carlo mode a track that passes the charge check and has no truth
\* match is admitted exactly when none of selectPrim, selectSec and a nonzero
\* selectPID is active, and rejected when at least one of them is active.
C11_UnmatchedTrack ==
    (written /\ last.IS_MC) =>
        \A t \in Range(last.tracks) :
            (passesCharge(t) /\ ~t.has_mcParticle) =>
                (t \in lastAdmitted <=>
                    (~cfg.selectPrim /\ ~cfg.selectSec /\ cfg.selectPID = 0))

C11_Witness ==
    /\ written /\ last.IS_MC
    /\ ~cfg.selectPrim /\ ~cfg.selectSec /\ cfg.selectPID = 211
    /\ \E t, u \in Range(last.tracks) :
           /\ passesCharge(t) /\ ~t.has_mcParticle /\ t \notin lastAdmitted
           /\ u.has_mcParticle /\ u \in lastAdmitted

\* C12: in Monte Carlo mode a truth-matched track is admitted exactly when the
\* charge check passes, selectPrim is off or the particle is primary, selectSec is
\* off or the particle is not primary, and selectPID is 0 or equals |pdgCode| (so
\* pdgCode -211 is admitted under selectPID = 211); the conjunction is symmetric
\* in its conditions.
C12_MatchedTrack ==
    (written /\ last.IS_MC) =>
        \A t \in Range(last.tracks) :
            t.has_mcParticle =>
                LET particle == mcParticles[t.mcParticleId + 1]
                IN  t \in lastAdmitted <=>
                        /\ cfg.selectPID = 0 \/ cfg.selectPID = Abs(particle.pdgCode)
                        /\ ~cfg.selectSec \/ ~particle.isPhysicalPrimary
                        /\ ~cfg.selectPrim \/ particle.isPhysicalPrimary
                        /\ passesCharge(t)

C12_Witness ==
    /\ written /\ last.IS_MC
    /\ cfg.selectPID = 211
    /\ \E t, u \in Range(last.tracks) :
           /\ t.has_mcParticle /\ mcParticles[t.mcParticleId + 1].pdgCode = -211
           /\ t \in lastAdmitted
           /\ u.has_mcParticle /\ mcParticles[u.mcParticleId + 1].pdgCode = 2212
           /\ passesCharge(u) /\ u \notin lastAdmitted

\* the production value agrees with the attributes of the truth particle
productionOf(production, particle) ==
    /\ production \in {0, 1, 2}
    /\ production = 0 <=> particle.isPhysicalPrimary
    /\ production = 1 <=> (~particle.isPhysicalPrimary /\ particle.getProcess = 4)
    /\ production = 2 <=> (~particle.isPhysicalPrimary /\ particle.getProcess # 4)

\* C13: the classification written for a truth particle is one of 0, 1, 2: 0 when
\* isPhysicalPrimary is set whatever the process code, else 1 when the process code
\* is 4, else 2; reconstructed-particle and non-reconstructed-particle rows follow
\* the same rule.
C13_Production ==
    \A a \in DOMAIN log :
        /\ (log[a].tab = "R" /\ log[a].part # -1) =>
               productionOf(tableRecoParticles[log[a].idx + 1].production,
                            mcParticles[log[a].part + 1])
        /\ (log[a].tab = "N") =>
               productionOf(tableNonRecoParticles[log[a].idx + 1].production,
                            mcParticles[log[a].part + 1])

C13_Witness ==
    /\ written /\ last.IS_MC
    /\ \E a, b, c \in DOMAIN log :
           /\ log[a].tab = "R" /\ log[a].part # -1
           /\ mcParticles[log[a].part + 1].isPhysicalPrimary
           /\ mcParticles[log[a].part + 1].getProcess = 4
           /\ tableRecoParticles[log[a].idx + 1].production = 0
           /\ log[b].tab = "N"
           /\ mcParticles[log[b].part + 1].isPhysicalPrimary
           /\ mcParticles[log[b].part + 1].getProcess = 4
           /\ tableNonRecoParticles[log[b].idx + 1].production = 0
           /\ log[c].tab = "N"
           /\ tableNonRecoParticles[log[c].idx + 1].production = 2

\* C14: in Monte Carlo mode there are always as many reconstructed-particle rows as
\* track rows: the i-th reconstructed-particle row is appended right after the i-th
\* track row, for the same track; when that track has no truth match the row holds
\* the track's own kinematics, particle-type code 0 and classification -1.
C14_RecoRowPerTrack ==
    cfg.doprocessTableMC =>
        /\ Len(tableRecoParticles) = Len(tableTracks)
        /\ \A i \in DOMAIN tableTracks :
               \E a \in DOMAIN log :
                   /\ log[a].tab = "T" /\ log[a].idx = i - 1
                   /\ a + 1 \in DOMAIN log
                   /\ log[a + 1].tab = "R" /\ log[a + 1].idx = i - 1
                   /\ log[a + 1].trk = log[a].trk /\ log[a + 1].coll = log[a].coll
                   /\ log[a + 1].part = -1 =>
                          /\ tableRecoParticles[i].pt = tableTracks[i].pt
                          /\ tableRecoParticles[i].pdgCode = 0
                          /\ tableRecoParticles[i].production = -1
                          /\ tableRecoParticles[i].production \notin 0..2

C14_Witness ==
    /\ cfg.doprocessTableMC
    /\ Len(tableCollisions) = 2
    /\ Len(tableRecoParticles) = 3
    /\ \E a, b \in DOMAIN log :
           /\ log[a].tab = "R" /\ log[a].part = -1
           /\ tableRecoParticles[log[a].idx + 1].production = -1
           /\ log[b].tab = "R" /\ log[b].part # -1 /\ log[b].coll # log[a].coll

\* C15: a collision with |posZ| > selectMaxVtxZ appends no row to any output table
\* and leaves nTableEventCounter unchanged; a collision with |posZ| = selectMaxVtxZ
\* passes the vertex cut: it is written when the selection, the sampling and the
\* cap let it through.
C15_VertexCut ==
    /\ [][(nCollisions' = nCollisions + 1
            /\ Abs(last'.collision.posZ) > cfg.selectMaxVtxZ)
              => (tables' = tables /\ nTableEventCounter' = nTableEventCounter)]_vars
    /\ [](( /\ called
            /\ Abs(last.collision.posZ) = cfg.selectMaxVtxZ
            /\ isSelectedCollision(last.collision)
            /\ ~notSampled(last.draw)
            /\ last.counter <= cfg.targetNumberOfEvents) => written)

C15_Witness ==
    /\ called
    /\ last.collision.posZ = -2 /\ cfg.selectMaxVtxZ = 1
    /\ isSelectedCollision(last.collision)
    /\ ~written
    /\ last.counter <= cfg.targetNumberOfEvents
    /\ Len(tableCollisions) = 1
    /\ Abs(tableCollisions[1].posZ) = cfg.selectMaxVtxZ

\* C16: for a collision that passed the selection and the vertex cut: when
\* fractionOfSampledEvents < 1 a draw is made, a draw above the fraction rejects
\* the collision and a draw equal to or below it lets the collision through to the
\* cap; when fractionOfSampledEvents >= 1 no draw is made and the collision goes
\* through to the cap.
C16_Sampling ==
    (called /\ isSelectedCollision(last.collision)
        /\ Abs(last.collision.posZ) <= cfg.selectMaxVtxZ) =>
        LET fraction == cfg.fractionOfSampledEvents
            underCap == last.counter <= cfg.targetNumberOfEvents
        IN  /\ fraction < FracDen =>
                   /\ last.draw \in 0..RandMax
                   /\ last.draw * FracDen > fraction * RandMax =>
                          (~written /\ nTableEventCounter = last.counter)
                   /\ (last.draw * FracDen <= fraction * RandMax /\ underCap) => written
            /\ fraction >= FracDen =>
                   /\ last.draw = -1
                   /\ underCap => written

C16_Witness ==
    /\ called /\ written
    /\ cfg.fractionOfSampledEvents > 0
    /\ cfg.fractionOfSampledEvents < FracDen
    /\ last.draw * FracDen = cfg.fractionOfSampledEvents * RandMax
    /\ Len(tableCollisions) = 1 /\ nCollisions = 2

\* the rows the step appended, as <<table, row>> in append order
stepRows ==
    [k \in 1..(Len(log') - Len(log)) |->
        LET e == log'[Len(log) + k]
        IN  <<e.tab,
              CASE e.tab = "C" -> tableCollisions'[e.idx + 1]
                [] e.tab = "T" -> tableTracks'[e.idx + 1]
                [] e.tab = "R" -> tableRecoParticles'[e.idx + 1]
                [] e.tab = "N" -> tableNonRecoParticles'[e.idx + 1]>>]

\* C17: with fractionOfSampledEvents = 1 and the running count below the target,
\* the rows a fillDerivedTable call appends, in order, are those of a second run of
\* the call from the same running count on the same collision, tracks, particles
\* and configuration, whatever the state of the random source in the second run.
C17_SameRowsOnRerun ==
    [][(/\ nCollisions' = nCollisions + 1
        /\ cfg.fractionOfSampledEvents = FracDen
        /\ nTableEventCounter < cfg.targetNumberOfEvents)
          => /\ Len(log') - Len(log) =
                    (Len(tableCollisions') - Len(tableCollisions))
                    + (Len(tableTracks') - Len(tableTracks))
                    + (Len(tableRecoParticles') - Len(tableRecoParticles))
                    + (Len(tableNonRecoParticles') - Len(tableNonRecoParticles))
             /\ \A r \in 0..RandMax :
                    stepRows = fillDerivedTableRows(last'.IS_MC, last'.collision,
                                                    last'.tracks, r)]_vars

C17_Witness ==
    /\ written /\ last.IS_MC /\ last.collision.has_mcCollision
    /\ cfg.fractionOfSampledEvents = FracDen
    /\ last.counter = 1 /\ last.counter < cfg.targetNumberOfEvents
    /\ Cardinality(lastEntries("T")) = 2
    /\ \E a \in lastEntries("R") : log[a].part = -1
    /\ lastEntries("N") # {}

\* C18: a call is rejected by the first check that fails in the order selection,
\* vertex cut, sampling, cap (a draw is made whenever the first two pass and the
\* fraction is below 1, also when the cap then rejects); nTableEventCounter starts
\* at 0, never decreases, grows by one exactly on admission together with exactly
\* one collision row, and always equals the number of collision rows.
C18_CounterCountsCollisions ==
    /\ [](nTableEventCounter = Len(tableCollisions))
    /\ [](~called => nTableEventCounter = 0)
    /\ [][nTableEventCounter' >= nTableEventCounter]_vars
    /\ [](called =>
            LET selected == isSelectedCollision(last.collision)
                inside == Abs(last.collision.posZ) <= cfg.selectMaxVtxZ
                sampled == ~(/\ cfg.fractionOfSampledEvents < FracDen
                             /\ last.draw * FracDen > cfg.fractionOfSampledEvents * RandMax)
                underCap == last.counter <= cfg.targetNumberOfEvents
            IN  /\ last.outcome = "notSelected" <=> ~selected
                /\ last.outcome = "vtxZ" <=> (selected /\ ~inside)
                /\ last.outcome = "notSampled" <=> (selected /\ inside /\ ~sampled)
                /\ last.outcome = "targetReached" <=>
                       (selected /\ inside /\ sampled /\ ~underCap)
                /\ written <=> (selected /\ inside /\ sampled /\ underCap)
                /\ last.draw # -1 <=>
                       (selected /\ inside /\ cfg.fractionOfSampledEvents < FracDen)
                /\ nTableEventCounter = last.counter + (IF written THEN 1 ELSE 0)
                /\ Cardinality(lastEntries("C")) = (IF written THEN 1 ELSE 0))

\* a collision outside the vertex window arrives when the cap is already reached
C18_Witness ==
    /\ called
    /\ isSelectedCollision(last.collision)
    /\ Abs(last.collision.posZ) > cfg.selectMaxVtxZ
    /\ last.counter > cfg.targetNumberOfEvents
    /\ last.counter = 1
    /\ nTableEventCounter = 1 /\ Len(tableCollisions) = 1

\* C19: when processTableData and processTableMC are both enabled init ends in a
\* fatal error, no collision is ever processed and no row is ever appended; when at
\* most one of them is enabled init raises no fatal error.
C19_BothSwitchesFatal ==
    LET both == cfg.doprocessTableData /\ cfg.doprocessTableMC
    IN  /\ both =>
               /\ pc \in {"constructed", "fatal"}
               /\ ~called /\ nCollisions = 0
               /\ tables = <<(<<>>), (<<>>), (<<>>), (<<>>)>>
               /\ nTableEventCounter = 0
        /\ ~both => pc \in {"constructed", "running"}

C19_Witness ==
    /\ cfg.doprocessTableData /\ cfg.doprocessTableMC
    /\ pc = "fatal"
    /\ ~called

\* C20: in Monte Carlo mode an admitted collision without a truth collision appends
\* no non-reconstructed-particle row, while its collision row, one track row and
\* one reconstructed-particle row per admitted track are appended and
\* nTableEventCounter grows by one.
C20_NoTruthCollision ==
    (written /\ last.IS_MC /\ ~last.collision.has_mcCollision) =>
        LET nTracks == Cardinality({i \in DOMAIN last.tracks :
                                       isSelectedTrack(TRUE, last.tracks[i])})
        IN  /\ lastEntries("N") = {}
            /\ Cardinality(lastEntries("C")) = 1
            /\ Cardinality(lastEntries("T")) = nTracks
            /\ Cardinality(lastEntries("R")) = nTracks
            /\ nTableEventCounter = last.counter + 1
            /\ Len(log) = Len(tableCollisions) + Len(tableTracks)
                              + Len(tableRecoParticles) + Len(tableNonRecoParticles)

C20_Witness ==
    /\ written /\ last.IS_MC /\ ~last.collision.has_mcCollision
    /\ Cardinality(lastEntries("T")) = 2
    /\ Cardinality(lastEntries("R")) = 2
    /\ \E a \in lastEntries("R") : log[a].part # -1
    /\ lastEntries("N") = {}
    /\ Len(tableNonRecoParticles) > 0
    /\ nTableEventCounter = 2

\* the table old is kept as the leading rows of the table new
keptIn(old, new) ==
    /\ Len(new) >= Len(old)
    /\ \A i \in DOMAIN old : new[i] = old[i]

\* C21: the four output tables are append-only: every step keeps each row already
\* appended at its position with its content, and a fillDerivedTable call that
\* rejects its collision leaves the four tables unchanged.
C21_AppendOnly ==
    [][/\ keptIn(tableCollisions, tableCollisions')
       /\ keptIn(tableTracks, tableTracks')
       /\ keptIn(tableRecoParticles, tableRecoParticles')
       /\ keptIn(tableNonRecoParticles, tableNonRecoParticles')
       /\ (nCollisions' = nCollisions + 1 /\ nTableEventCounter' = nTableEventCounter)
              => tables' = tables]_vars

C21_Witness ==
    /\ written /\ last.IS_MC
    /\ Len(tableCollisions) = 2
    /\ \E i, j \in DOMAIN tableTracks :
           i < j /\ tableTracks[i].collisionId = 0 /\ tableTracks[j].collisionId = 1
    /\ \E i, j \in DOMAIN tableNonRecoParticles :
           /\ i < j /\ tableNonRecoParticles[i].collisionId = 0
           /\ tableNonRecoParticles[j].collisionId = 1
    /\ Len(tableRecoParticles) >= 2

\* C22: in data mode no reconstructed-particle and no non-reconstructed-particle
\* row is ever appended, and the tracks written for a collision are exactly those
\* that pass the charge check, whatever selectPrim, selectSec and selectPID are.
C22_DataMode ==
    /\ ~cfg.doprocessTableMC =>
           (tableRecoParticles = <<>> /\ tableNonRecoParticles = <<>>)
    /\ (written /\ ~last.IS_MC) =>
           /\ lastEntries("R") = {} /\ lastEntries("N") = {}
           /\ lastAdmitted = {t \in Range(last.tracks) : passesCharge(t)}
           /\ Cardinality(lastEntries("T")) = Cardinality(lastAdmitted)

C22_Witness ==
    /\ written /\ ~last.IS_MC
    /\ cfg.selectPrim /\ cfg.selectSec /\ cfg.selectPID = 211
    /\ cfg.selectCharge = -1
    /\ \E t, u \in Range(last.tracks) :
           /\ t.sign = -1 /\ t \in lastAdmitted
           /\ u.sign = 1 /\ u \notin lastAdmitted

\* C23: in Monte Carlo mode, for every admitted collision with a truth collision,
\* the number of non-reconstructed-particle rows appended for it is at most the
\* size reserved for them, the number of particles of the truth collision minus
\* the number of admitted tracks, and that size is not negative.
C23_ReservedSize ==
    (written /\ last.IS_MC /\ last.collision.has_mcCollision) =>
        LET reserved == nonRecoReserve(last.collision, selectedTracks(TRUE, last.tracks))
        IN  /\ Cardinality(lastEntries("N")) <= reserved
            /\ reserved >= 0

\* C24: whenever init has passed without a fatal error, every histogram that a
\* process function has filled was registered by init.
C24_FilledRegistered ==
    pc = "running" => fills \subseteq histos

\* C25: in Monte Carlo mode with selectPrim and selectSec both enabled no track is
\* admitted: an admitted collision is written with one collision row, no track row
\* and no reconstructed-particle row, and every particle of its truth collision is
\* written once as non-reconstructed.
C25_PrimAndSec ==
    (written /\ last.IS_MC /\ cfg.selectPrim /\ cfg.selectSec) =>
        /\ lastAdmitted = {}
        /\ Cardinality(lastEntries("C")) = 1
        /\ lastEntries("T") = {}
        /\ lastEntries("R") = {}
        /\ last.collision.has_mcCollision =>
               \A i \in DOMAIN mcParticles :
                   mcParticles[i].mcCollisionId = last.collision.mcCollisionId =>
                       Cardinality({b \in lastEntries("N") :
                                       log[b].part = mcParticles[i].globalIndex}) = 1

C25_Witness ==
    /\ written /\ last.IS_MC /\ cfg.selectPrim /\ cfg.selectSec
    /\ cfg.selectCharge = 0 /\ cfg.selectPID = 0
    /\ last.collision.has_mcCollision
    /\ \E t, u \in Range(last.tracks) :
           /\ t.has_mcParticle /\ mcParticles[t.mcParticleId + 1].isPhysicalPrimary
           /\ ~u.has_mcParticle
    /\ Cardinality(lastEntries("N")) = NParticles
    /\ Len(tableTracks) = 0 /\ Len(tableRecoParticles) = 0

====
